---- MODULE Spec2Model ----
(* Connection manager of utils/mongodb.js: the module-level cache           *)
(* (cachedClient, cachedDb), the async functions layered on it, and the     *)
(* driver/server they talk to.  JavaScript runs one continuation at a time, *)
(* so every action is the code between two awaits of one call.              *)
EXTENDS Integers, FiniteSets, Sequences, TLC

\* ---------------------------------------------------------------- bounds
MaxClients == 2        \* MongoClient objects constructed in one run
MaxIdLen == 25         \* longest string passed to isValidObjectId

\* the callers: two calls may be in flight at the same time
Tasks == {"a", "b"}
ClientIds == 1..MaxClients

\* ------------------------------------------------------- program constants
NumIndexes == 8
Null == 0
DefaultDb == "donation_system"
DefaultColl == "donations"

\* an unset environment variable (falsy)
Unset == ""
DbEnv == {Unset, "testdb"}
CollEnv == {Unset}
Envs == [MONGODB_URI : BOOLEAN, DATABASE_NAME : DbEnv, COLLECTION_NAME : CollEnv]
\* the configurations the callers of Spec pass: the database name is left
\* to its default
CallEnvs == {e \in Envs : e.DATABASE_NAME = Unset}
NoEnv == [MONGODB_URI |-> FALSE, DATABASE_NAME |-> Unset, COLLECTION_NAME |-> Unset]

ClientOps == {"getMongoClient", "getDatabase", "getDonationCollection"}
\* checkMongoHealth exists in two revisions: src/utils/mongodb.js only looks at
\* the configuration ("checkMongoHealth"), scr/utils/mongodb.js connects and
\* pings ("checkMongoHealthPing")
HealthOps == {"checkMongoHealth", "checkMongoHealthPing"}
\* the operations that begin by running getMongoClient
ConnectOps == ClientOps \cup {"checkMongoHealthPing"}
Ops == ClientOps \cup {"closeMongoConnection", "isValidObjectId"} \cup HealthOps

\* a database handle: the client it was derived from and its name
NoDb == [c |-> Null, name |-> Unset]
DbHandle(c, n) == [c |-> c, name |-> n]

\* what a call hands to its caller
NoRes == [kind |-> "none", c |-> Null, db |-> NoDb, coll |-> Unset, err |-> Unset,
          ok |-> FALSE, message |-> Unset]
OkClient(c) == [NoRes EXCEPT !.kind = "client", !.c = c]
OkDb(d) == [NoRes EXCEPT !.kind = "db", !.db = d]
OkColl(d, n) == [NoRes EXCEPT !.kind = "coll", !.db = d, !.coll = n]
OkVoid == [NoRes EXCEPT !.kind = "void"]
Err(e) == [NoRes EXCEPT !.kind = "err", !.err = e]
OkBool(b) == [NoRes EXCEPT !.kind = "bool", !.ok = b]
OkHealth(ok, m) == [NoRes EXCEPT !.kind = "health", !.ok = ok, !.message = m]

\* a JavaScript value passed as id: its type and the string it coerces to,
\* a sequence of character codes
NoArg == [type |-> "undefined", str |-> <<>>]

VARIABLES
    cachedClient,   \* let cachedClient: Null or a client id
    cachedDb,       \* let cachedDb: NoDb or a database handle
    clients,        \* each MongoClient object's connection state
    pinged,         \* clients whose admin ping succeeded
    nextClient,     \* id of the next MongoClient to be constructed
    collections,    \* server: <<database, collection>> pairs that exist
    tk,             \* per call in flight: position and locals
    handedOut       \* history: collections some call has returned a handle for

vars == <<cachedClient, cachedDb, clients, pinged, nextClient, collections,
          tk, handedOut>>

cacheVars == <<cachedClient, cachedDb>>
driverVars == <<clients, pinged, nextClient>>
serverVars == <<collections>>
histVars == <<handedOut>>

Keys == {DefaultDb, "testdb"} \X {DefaultColl}

IdleTask ==
    [pc |-> "idle", op |-> "none", env |-> NoEnv, arg |-> NoArg, client |-> Null,
     db |-> NoDb, idx |-> 0, res |-> NoRes,
     \* history of the current call
     net |-> FALSE,        \* getMongoClient or close called into the driver
     fail |-> Unset,       \* the driver step that failed in this call
     sawAbsent |-> FALSE,  \* listCollections returned an empty list
     afterOk |-> FALSE,    \* listed after some call had returned this collection
     closed |-> Null]      \* closeMongoConnection: the client being closed

\* a call returns or throws: its locals die, the caller sees res; the
\* history of the call stays until the caller takes the result
Return(r, res) ==
    [IdleTask EXCEPT !.pc = "done", !.op = r.op, !.res = res,
                     !.env = r.env, !.arg = r.arg,
                     !.net = r.net, !.fail = r.fail, !.sawAbsent = r.sawAbsent,
                     !.afterOk = r.afterOk, !.idx = r.idx]

Init ==
    /\ cachedClient = Null
    /\ cachedDb = NoDb
    /\ clients = [c \in ClientIds |-> "unborn"]
    /\ pinged = {}
    /\ nextClient = 1
    /\ collections = {}
    /\ tk = [t \in Tasks |-> IdleTask]
    /\ handedOut = {}

\* ------------------------------------------------------------ getMongoClient

\* cachedClient.topology?.isConnected()
isConnected(c) == clients[c] = "connected"

\* the cache check answers "miss" whatever the cache holds
CacheHitNever == FALSE

\* line 11: cachedClient && cachedClient.topology?.isConnected()
CacheHit == cachedClient # Null /\ isConnected(cachedClient)

\* the URI check is gone: the client is constructed from whatever env holds
UriUnchecked(e) == FALSE

\* line 19: !MONGODB_URI
UriMissing(e) == ~e.MONGODB_URI

\* the catch block rethrows without touching the cache
CatchKeepsClient(cc) == cc

\* line 54: the catch block's cachedClient = null
CatchClient(cc) == Null

\* the client is cached as soon as connect has succeeded, before the ping
ConnectedCached(cc, c) == c

\* lines 40-41: a successful connect leaves the cache as it is
Connected(cc, c) == cc

\* the assignment is missing: the new client is returned but not cached
StoreNothing(cc, c) == cc

\* line 48: cachedClient = client
StoreClient(cc, c) == c

\* where a finished getMongoClient leaves the call: the top-level call is
\* done, a nested one resumes its caller after the await
RetClient(r, res) ==
    IF r.op = "getMongoClient" THEN Return(r, res)
    ELSE IF r.op = "checkMongoHealthPing" THEN [r EXCEPT !.pc = "hc_client", !.res = res]
    ELSE [r EXCEPT !.pc = "gc_done", !.res = res]

\* a call of getMongoClient, getDatabase, getDonationCollection or the
\* pinging checkMongoHealth: all run getMongoClient synchronously up to its
\* first await
Call(t, o, e) ==
    /\ tk[t].pc = "idle"
    /\ o \in ConnectOps
    /\ e \in Envs
    /\ UNCHANGED <<cachedDb, pinged, serverVars, histVars>>
    /\ IF CacheHit
       THEN /\ tk' = [tk EXCEPT ![t] = RetClient([IdleTask EXCEPT !.op = o, !.env = e],
                                                  OkClient(cachedClient))]
            /\ UNCHANGED <<cachedClient, clients, nextClient>>
       ELSE IF UriMissing(e)
       THEN /\ tk' = [tk EXCEPT ![t] = RetClient(
                         [IdleTask EXCEPT !.op = o, !.env = e, !.fail = "uri"],
                         Err("MONGODB_URI environment variable is required"))]
            /\ cachedClient' = CatchClient(cachedClient)
            /\ UNCHANGED <<clients, nextClient>>
       ELSE /\ nextClient <= MaxClients
            /\ clients' = [clients EXCEPT ![nextClient] = "connecting"]
            /\ nextClient' = nextClient + 1
            /\ tk' = [tk EXCEPT ![t] = [IdleTask EXCEPT !.pc = "connecting",
                         !.op = o, !.env = e, !.client = nextClient, !.net = TRUE]]
            /\ UNCHANGED cachedClient

\* line 40: await client.connect() settles
Connect(t, ok) ==
    /\ tk[t].pc = "connecting"
    /\ UNCHANGED <<cachedDb, pinged, nextClient, serverVars, histVars>>
    /\ IF ok
       THEN /\ clients' = [clients EXCEPT ![tk[t].client] = "connected"]
            /\ tk' = [tk EXCEPT ![t].pc = "pinging"]
            /\ cachedClient' = Connected(cachedClient, tk[t].client)
       ELSE /\ clients' = [clients EXCEPT ![tk[t].client] = "dead"]
            /\ cachedClient' = CatchClient(cachedClient)
            /\ tk' = [tk EXCEPT ![t] = RetClient([tk[t] EXCEPT !.fail = "connect"],
                                                  Err("connect failed"))]

\* line 45: await client.db().admin().ping() settles; line 48 stores the client
Ping(t, ok) ==
    /\ tk[t].pc = "pinging"
    /\ UNCHANGED <<cachedDb, clients, nextClient, serverVars, histVars>>
    /\ IF ok
       THEN /\ pinged' = pinged \cup {tk[t].client}
            /\ cachedClient' = StoreClient(cachedClient, tk[t].client)
            /\ tk' = [tk EXCEPT ![t] = RetClient(tk[t], OkClient(tk[t].client))]
       ELSE /\ cachedClient' = CatchClient(cachedClient)
            /\ tk' = [tk EXCEPT ![t] = RetClient([tk[t] EXCEPT !.fail = "ping"],
                                                  Err("ping failed"))]
            /\ UNCHANGED pinged

\* --------------------------------------------------------------- getDatabase

\* line 65: env.DATABASE_NAME || 'donation_system'
dbName(e) == IF e.DATABASE_NAME = Unset THEN DefaultDb ELSE e.DATABASE_NAME

\* the handle is derived anew on every call
DeriveDbAlways(cd, c, n) == DbHandle(c, n)

\* lines 67-69: if (!cachedDb) cachedDb = client.db(dbName)
DeriveDb(cd, c, n) == IF cd = NoDb THEN DbHandle(c, n) ELSE cd

RetDb(r, res) ==
    IF r.op = "getDatabase" THEN Return(r, res)
    ELSE [r EXCEPT !.pc = "db_done", !.res = res]

\* the frame of getMongoClient is gone once its caller has resumed:
\* MONGODB_URI is read for the last time at line 17
AfterClient(r) == [r EXCEPT !.client = Null, !.net = FALSE, !.env.MONGODB_URI = FALSE]

\* lines 64-75: getDatabase resumes after await getMongoClient(env)
GetDatabaseCont(t) ==
    /\ tk[t].pc = "gc_done"
    /\ UNCHANGED <<cachedClient, driverVars, serverVars, histVars>>
    /\ IF tk[t].res.kind = "err"
       THEN /\ tk' = [tk EXCEPT ![t] = RetDb(AfterClient(tk[t]), tk[t].res)]
            /\ UNCHANGED cachedDb
       ELSE /\ cachedDb' = DeriveDb(cachedDb, tk[t].res.c, dbName(tk[t].env))
            /\ tk' = [tk EXCEPT ![t] = RetDb(AfterClient(tk[t]), OkDb(cachedDb'))]

\* ----------------------------------------------------- getDonationCollection

\* line 84: env.COLLECTION_NAME || 'donations'
collectionName(e) == IF e.COLLECTION_NAME = Unset THEN DefaultColl ELSE e.COLLECTION_NAME

\* the collection a call works on: its db handle's database, its env's name
KeyOf(r) == <<r.db.name, collectionName(r.env)>>

\* the existence check is skipped: every call provisions
IsAbsentAlways(k) == TRUE

\* line 88: collections.length === 0
IsAbsent(k) == k \notin collections

\* createIndexes without its try/catch: the failure reaches the outer catch
\* of getDonationCollection and is rethrown
IndexFailedThrows(r) == Return([r EXCEPT !.fail = "index"], Err("createIndex failed"))

\* lines 124-126: createIndexes catches the failure and returns normally
IndexFailed(r) == [r EXCEPT !.pc = "ci_done", !.fail = "index", !.res = NoRes]

\* lines 98-100: a createCollection failure reaches the outer catch, rethrown
CreateFailed(r) == Return([r EXCEPT !.fail = "create"], Err("createCollection failed"))

\* lines 83-87: getDonationCollection resumes after await getDatabase(env)
\* and issues listCollections
GetCollectionCont(t) ==
    /\ tk[t].pc = "db_done"
    /\ UNCHANGED <<cacheVars, driverVars, serverVars, histVars>>
    /\ IF tk[t].res.kind = "err"
       THEN tk' = [tk EXCEPT ![t] = Return(tk[t], tk[t].res)]
       ELSE tk' = [tk EXCEPT ![t].pc = "listing", ![t].db = tk[t].res.db,
                             ![t].res = NoRes]

\* lines 87-90, 97: listCollections settles; createCollection is issued when
\* the list is empty, else the collection is returned
ListCollections(t, ok) ==
    /\ tk[t].pc = "listing"
    /\ UNCHANGED <<cacheVars, driverVars, serverVars>>
    /\ IF ~ok
       THEN /\ tk' = [tk EXCEPT ![t] = Return([tk[t] EXCEPT !.fail = "list"],
                                               Err("listCollections failed"))]
            /\ UNCHANGED handedOut
       ELSE IF IsAbsent(KeyOf(tk[t]))
       THEN /\ tk' = [tk EXCEPT ![t].pc = "creating", ![t].sawAbsent = TRUE,
                                ![t].afterOk = KeyOf(tk[t]) \in handedOut]
            /\ UNCHANGED handedOut
       ELSE /\ tk' = [tk EXCEPT ![t] = Return(
                         [tk[t] EXCEPT !.afterOk = KeyOf(tk[t]) \in handedOut],
                         OkColl(tk[t].db, collectionName(tk[t].env)))]
            /\ handedOut' = handedOut \cup {KeyOf(tk[t])}

\* lines 90-94: createCollection settles; createIndexes is called and issues
\* its first createIndex
CreateCollection(t, ok) ==
    /\ tk[t].pc = "creating"
    /\ UNCHANGED <<cacheVars, driverVars, handedOut>>
    /\ IF ok
       THEN /\ collections' = collections \cup {KeyOf(tk[t])}
            /\ tk' = [tk EXCEPT ![t].pc = "indexing", ![t].idx = 1]
       ELSE /\ tk' = [tk EXCEPT ![t] = CreateFailed(tk[t])]
            /\ UNCHANGED collections

\* lines 109-126: one createIndex of createIndexes settles
CreateIndex(t, ok) ==
    /\ tk[t].pc = "indexing"
    /\ UNCHANGED <<cacheVars, driverVars, serverVars, histVars>>
    /\ IF ok
       THEN IF tk[t].idx = NumIndexes
            THEN tk' = [tk EXCEPT ![t].pc = "ci_done"]
            ELSE tk' = [tk EXCEPT ![t].idx = tk[t].idx + 1]
       ELSE tk' = [tk EXCEPT ![t] = IndexFailed(tk[t])]

\* lines 94-97: getDonationCollection resumes after await createIndexes
CreateIndexesCont(t) ==
    /\ tk[t].pc = "ci_done"
    /\ tk' = [tk EXCEPT ![t] = Return(tk[t], OkColl(tk[t].db, collectionName(tk[t].env)))]
    /\ handedOut' = handedOut \cup {KeyOf(tk[t])}
    /\ UNCHANGED <<cacheVars, driverVars, serverVars>>

\* ------------------------------------------------------ closeMongoConnection

\* the guard is gone: close() and the finally block run on every call
CloseUnguarded == TRUE

\* line 140: if (cachedClient)
CloseGuard == cachedClient # Null

\* lines 139-142: closeMongoConnection up to await cachedClient.close()
CloseCall(t) ==
    /\ tk[t].pc = "idle"
    /\ UNCHANGED <<cacheVars, driverVars, serverVars, histVars>>
    /\ IF CloseGuard
       THEN tk' = [tk EXCEPT ![t] = [IdleTask EXCEPT !.pc = "closing",
                       !.op = "closeMongoConnection", !.closed = cachedClient,
                       !.net = TRUE]]
       ELSE tk' = [tk EXCEPT ![t] = Return([IdleTask EXCEPT !.op = "closeMongoConnection"],
                                           OkVoid)]

\* lines 142-149: close() settles; the finally block clears both caches
CloseSettle(t, ok) ==
    /\ tk[t].pc = "closing"
    /\ clients' = IF ok /\ tk[t].closed # Null
                  THEN [clients EXCEPT ![tk[t].closed] = "dead"]
                  ELSE clients
    /\ cachedClient' = Null
    /\ cachedDb' = NoDb
    /\ tk' = [tk EXCEPT ![t] = Return([tk[t] EXCEPT !.fail = IF ok THEN Unset ELSE "close"],
                                       OkVoid)]
    /\ UNCHANGED <<pinged, nextClient, serverVars, histVars>>

\* ----------------------------------------------------------- isValidObjectId

\* line 133: the {24} of the pattern
ObjectIdLen == 24

\* line 133: the character class [0-9a-fA-F], by code point ranges
InClass(c) == (48 <= c /\ c <= 57) \/ (97 <= c /\ c <= 102) \/ (65 <= c /\ c <= 70)

\* line 133: /^[0-9a-fA-F]{24}$/.test(s), matching from position i with n
\* characters of the class consumed: after the 24th only the end of the
\* input matches
RECURSIVE Match(_, _, _)
Match(s, i, n) ==
    IF n = ObjectIdLen THEN i = Len(s) + 1
    ELSE IF i > Len(s) THEN FALSE
    ELSE IF InClass(s[i]) THEN Match(s, i + 1, n + 1)
    ELSE FALSE

\* test() applies the pattern to the string its argument coerces to
RegexTest(id) == Match(id.str, 1, 0)

\* the typeof check is gone: test() coerces whatever it is given
isValidObjectIdUntyped(id) == RegexTest(id)

\* line 133: typeof id === 'string' && /^[0-9a-fA-F]{24}$/.test(id)
isValidObjectId(id) == id.type = "string" /\ RegexTest(id)

\* the characters of the inputs: the ends of the three ranges, their outer
\* neighbours / : @ G ` g, and a line feed
Chars == {47, 48, 57, 58, 64, 65, 70, 71, 96, 97, 102, 103, 10}

\* strings up to MaxIdLen made of one hex digit, with at most one position
\* holding any other character
Strings ==
    {[i \in 1..n |-> IF i = p THEN c ELSE b] :
        n \in 0..MaxIdLen, p \in 0..MaxIdLen, c \in Chars, b \in {48, 97, 70}}

\* the values passed as id: strings, and objects (arrays) that coerce to
\* such strings, numbers and null
Ids ==
    [type : {"string", "object"}, str : Strings]
        \cup {[type |-> "number", str |-> <<49, 50>>],
              [type |-> "null", str |-> <<110, 117, 108, 108>>]}

\* lines 132-134: isValidObjectId, one synchronous run
ValidCall(t, id) ==
    /\ tk[t].pc = "idle"
    /\ tk' = [tk EXCEPT ![t] = Return(
                 [IdleTask EXCEPT !.op = "isValidObjectId", !.arg = id],
                 OkBool(isValidObjectId(id)))]
    /\ UNCHANGED <<cacheVars, driverVars, serverVars, histVars>>

\* ---------------------------------------------------------- checkMongoHealth

\* the configuration is not looked at: the check always passes
HealthUriIgnored(e) == FALSE

\* src/utils/mongodb.js line 160: !MONGODB_URI
HealthUriMissing(e) == ~e.MONGODB_URI

\* src/utils/mongodb.js lines 156-170: the configuration-only health check,
\* one synchronous run
HealthCall(t, e) ==
    /\ tk[t].pc = "idle"
    /\ e \in Envs
    /\ tk' = [tk EXCEPT ![t] = Return(
                 [IdleTask EXCEPT !.op = "checkMongoHealth", !.env = e],
                 IF HealthUriMissing(e)
                 THEN OkHealth(FALSE, "MONGODB_URI environment variable is not set")
                 ELSE OkHealth(TRUE, "MongoDB URI is configured"))]
    /\ UNCHANGED <<cacheVars, driverVars, serverVars, histVars>>

\* the health check without its try/catch: the error reaches the caller
HealthThrows(r, m) == Return(r, Err(m))

\* scr/utils/mongodb.js lines 154-156: the catch block folds the error into
\* the returned value
HealthCaught(r, m) == Return(r, OkHealth(FALSE, "MongoDB connection failed: " \o m))

\* scr/utils/mongodb.js lines 150-152: checkMongoHealth resumes after
\* await getMongoClient(env) and issues its own ping
HealthCont(t) ==
    /\ tk[t].pc = "hc_client"
    /\ UNCHANGED <<cacheVars, driverVars, serverVars, histVars>>
    /\ IF tk[t].res.kind = "err"
       THEN tk' = [tk EXCEPT ![t] = HealthCaught(tk[t], tk[t].res.err)]
       ELSE tk' = [tk EXCEPT ![t].pc = "hc_pinging", ![t].client = tk[t].res.c,
                             ![t].res = NoRes]

\* scr/utils/mongodb.js lines 152-156: the health check's ping settles
HealthPing(t, ok) ==
    /\ tk[t].pc = "hc_pinging"
    /\ UNCHANGED <<cacheVars, driverVars, serverVars, histVars>>
    /\ IF ok
       THEN tk' = [tk EXCEPT ![t] = Return(tk[t], OkHealth(TRUE, "MongoDB is connected"))]
       ELSE tk' = [tk EXCEPT ![t] = HealthCaught([tk[t] EXCEPT !.fail = "health ping"],
                                                 "ping failed")]

\* --------------------------------------------------------------- environment

\* the server or the network ends the cached client's connection, the one
\* connection whose liveness the code reads (line 11)
Drop(c) ==
    /\ c = cachedClient
    /\ clients[c] = "connected"
    /\ clients' = [clients EXCEPT ![c] = "dead"]
    /\ UNCHANGED <<cacheVars, pinged, nextClient, serverVars, tk, histVars>>

\* the caller takes the result of a finished call
Finish(t) ==
    /\ tk[t].pc = "done"
    /\ tk' = [tk EXCEPT ![t] = IdleTask]
    /\ UNCHANGED <<cacheVars, driverVars, serverVars, histVars>>

Next ==
    \/ \E t \in Tasks, o \in ClientOps, e \in CallEnvs : Call(t, o, e)
    \/ \E t \in Tasks, ok \in BOOLEAN : Connect(t, ok)
    \/ \E t \in Tasks, ok \in BOOLEAN : Ping(t, ok)
    \/ \E t \in Tasks : GetDatabaseCont(t)
    \/ \E t \in Tasks : GetCollectionCont(t)
    \/ \E t \in Tasks, ok \in BOOLEAN : ListCollections(t, ok)
    \/ \E t \in Tasks, ok \in BOOLEAN : CreateCollection(t, ok)
    \/ \E t \in Tasks, ok \in BOOLEAN : CreateIndex(t, ok)
    \/ \E t \in Tasks : CreateIndexesCont(t)
    \/ \E t \in Tasks : CloseCall(t)
    \/ \E t \in Tasks, ok \in BOOLEAN : CloseSettle(t, ok)
    \/ \E c \in ClientIds : Drop(c)
    \/ \E t \in Tasks : Finish(t)

Spec == Init /\ [][Next]_vars

\* the health checks, in both revisions, against every state of the cache:
\* getMongoClient, getDatabase and closeMongoConnection calls fill and empty it
NextHealth ==
    \/ \E t \in Tasks, e \in CallEnvs : HealthCall(t, e)
    \/ \E t \in Tasks, e \in CallEnvs :
          \E o \in {"checkMongoHealthPing", "getMongoClient", "getDatabase"} : Call(t, o, e)
    \/ \E t \in Tasks, ok \in BOOLEAN : Connect(t, ok)
    \/ \E t \in Tasks, ok \in BOOLEAN : Ping(t, ok)
    \/ \E t \in Tasks : HealthCont(t)
    \/ \E t \in Tasks, ok \in BOOLEAN : HealthPing(t, ok)
    \/ \E t \in Tasks : GetDatabaseCont(t)
    \/ \E t \in Tasks : CloseCall(t)
    \/ \E t \in Tasks, ok \in BOOLEAN : CloseSettle(t, ok)
    \/ \E c \in ClientIds : Drop(c)
    \/ \E t \in Tasks : Finish(t)

SpecHealth == Init /\ [][NextHealth]_vars

\* cold starts against a reachable server: getMongoClient called directly and
\* through getDatabase with a valid configuration, every connect and ping
\* succeeding and no connection ending
NextCold ==
    \/ \E t \in Tasks, o \in {"getMongoClient", "getDatabase"} :
          \E e \in {c \in CallEnvs : c.MONGODB_URI} : Call(t, o, e)
    \/ \E t \in Tasks : Connect(t, TRUE)
    \/ \E t \in Tasks : Ping(t, TRUE)
    \/ \E t \in Tasks : GetDatabaseCont(t)
    \/ \E t \in Tasks : Finish(t)

SpecCold == Init /\ [][NextCold]_vars

\* getDatabase called with every configuration, the database name set or
\* left to its default, between closeMongoConnection calls and dropped
\* connections
NextDb ==
    \/ \E t \in Tasks, e \in Envs : Call(t, "getDatabase", e)
    \/ \E t \in Tasks, ok \in BOOLEAN : Connect(t, ok)
    \/ \E t \in Tasks, ok \in BOOLEAN : Ping(t, ok)
    \/ \E t \in Tasks : GetDatabaseCont(t)
    \/ \E t \in Tasks : CloseCall(t)
    \/ \E t \in Tasks, ok \in BOOLEAN : CloseSettle(t, ok)
    \/ \E c \in ClientIds : Drop(c)
    \/ \E t \in Tasks : Finish(t)

SpecDb == Init /\ [][NextDb]_vars

\* isValidObjectId applied to every input of Ids by one caller
NextId ==
    \/ tk["a"].pc = "idle" /\ \E id \in Ids : ValidCall("a", id)
    \/ Finish("a")

SpecId == Init /\ [][NextId]_vars

\* ==================================================================== claims

\* caller t begins a call in this step
Begins(t) == tk[t].pc = "idle" /\ tk'[t].pc # "idle"

\* no MongoClient is constructed, connected, pinged or closed in this step
NoDriverActivity == clients' = clients /\ pinged' = pinged /\ nextClient' = nextClient

LiveCached == cachedClient # Null /\ clients[cachedClient] = "connected"

\* C1: a getMongoClient call (direct, or made by getDatabase or
\* getDonationCollection) with a valid configuration that begins while the
\* cached client is live returns that very client, constructs no client and
\* issues no connect or ping; the cache is left as it was.
C1_CachedClientReused ==
    [][\A t \in Tasks :
        (Begins(t) /\ tk'[t].op \in ClientOps /\ tk'[t].env.MONGODB_URI /\ LiveCached)
        => /\ tk'[t].pc \in {"done", "gc_done"}
           /\ tk'[t].res = OkClient(cachedClient)
           /\ ~tk'[t].net
           /\ NoDriverActivity
           /\ cachedClient' = cachedClient]_vars

\* a getMongoClient call has returned the cached client without any connect
C1_Witness ==
    \E t \in Tasks :
        /\ tk[t].pc = "done" /\ tk[t].op = "getMongoClient"
        /\ tk[t].env.MONGODB_URI /\ ~tk[t].net
        /\ tk[t].res.kind = "client" /\ tk[t].res.c = cachedClient
        /\ tk[t].res.c \in pinged

\* C2 (as claimed): a getMongoClient call whose MONGODB_URI is absent fails
\* with the configuration error in every cache state, with no network activity.
C2_MissingUriAlwaysFails ==
    [][\A t \in Tasks :
        (Begins(t) /\ tk'[t].op \in ClientOps /\ ~tk'[t].env.MONGODB_URI)
        => /\ tk'[t].pc \in {"done", "gc_done"}
           /\ tk'[t].res.kind = "err"
           /\ NoDriverActivity]_vars

\* C2 (amended): a getMongoClient call whose MONGODB_URI is absent attempts no
\* network activity in any cache state; it fails with the configuration error
\* unless a live cached client exists, and then it returns that client.
C2_MissingUriNoNetwork ==
    [][\A t \in Tasks :
        (Begins(t) /\ tk'[t].op \in ClientOps /\ ~tk'[t].env.MONGODB_URI)
        => /\ tk'[t].pc \in {"done", "gc_done"}
           /\ ~tk'[t].net
           /\ NoDriverActivity
           /\ IF LiveCached
              THEN tk'[t].res = OkClient(cachedClient)
              ELSE /\ tk'[t].res = Err("MONGODB_URI environment variable is required")
                   /\ tk'[t].fail = "uri"]_vars

\* a getMongoClient call without a URI has failed with the configuration error
C2_Witness ==
    \E t \in Tasks :
        /\ tk[t].pc = "done" /\ tk[t].op = "getMongoClient"
        /\ ~tk[t].env.MONGODB_URI /\ tk[t].fail = "uri"
        /\ tk[t].res.kind = "err" /\ ~tk[t].net

\* C3: when the connect or the ping of a getMongoClient call fails, the call
\* ends with an error and cachedClient is absent at that moment; and a call
\* with a valid configuration that begins while cachedClient is absent
\* constructs a new client and connects it.
C3_FailureClearsCache ==
    [][/\ \A t \in Tasks :
            (tk[t].pc \in {"connecting", "pinging"} /\ tk'[t].fail \in {"connect", "ping"})
            => /\ tk'[t].pc \in {"done", "gc_done"}
               /\ tk'[t].res.kind = "err"
               /\ cachedClient' = Null
       /\ \A t \in Tasks :
            (Begins(t) /\ tk'[t].op \in ClientOps /\ tk'[t].env.MONGODB_URI
                /\ cachedClient = Null)
            => /\ tk'[t].pc = "connecting"
               /\ tk'[t].client = nextClient
               /\ clients[nextClient] = "unborn"
               /\ clients'[nextClient] = "connecting"]_vars

\* a call has failed in connect or ping after an earlier client had been
\* cached, and the cache is empty
C3_Witness ==
    \E t \in Tasks :
        /\ tk[t].pc = "done" /\ tk[t].op = "getMongoClient"
        /\ tk[t].fail \in {"connect", "ping"}
        /\ tk[t].res.kind = "err"
        /\ pinged # {}
        /\ cachedClient = Null

\* C4 (as claimed): whenever a closeMongoConnection call completes, both
\* cachedClient and cachedDb are absent.
C4_CloseClearsBoth ==
    [][\A t \in Tasks :
        (tk[t].pc \in {"idle", "closing"} /\ tk'[t].pc = "done"
            /\ tk'[t].op = "closeMongoConnection")
        => (cachedClient' = Null /\ cachedDb' = NoDb)]_vars

\* C5: closeMongoConnection called while cachedClient is absent calls nothing
\* on the driver, changes neither cachedClient nor cachedDb, and returns
\* normally at once.
C5_CloseNoClientNoop ==
    [][\A t \in Tasks :
        (Begins(t) /\ tk'[t].op = "closeMongoConnection" /\ cachedClient = Null)
        => /\ tk'[t].pc = "done"
           /\ tk'[t].res = OkVoid
           /\ ~tk'[t].net
           /\ NoDriverActivity
           /\ cachedClient' = cachedClient
           /\ cachedDb' = cachedDb]_vars

\* a close call has returned without closing anything, the database handle
\* left in the cache
C5_Witness ==
    \E t \in Tasks :
        /\ tk[t].pc = "done" /\ tk[t].op = "closeMongoConnection"
        /\ ~tk[t].net /\ tk[t].res = OkVoid
        /\ cachedClient = Null /\ cachedDb # NoDb

\* the collection a finished getDonationCollection call returned
Returned(r) == <<r.res.db.name, r.res.coll>>

\* C6: a getDonationCollection call that found the collection absent and
\* returned it has issued createCollection and createIndex calls and the
\* collection exists; a call that lists the collections after some call has
\* returned this collection finds it present, issues no createCollection and
\* no createIndex, and returns the collection.
C6_ProvisionedOnceInSuccession ==
    \A t \in Tasks :
        tk[t].op = "getDonationCollection" =>
            /\ (tk[t].pc = "done" /\ tk[t].res.kind = "coll" /\ tk[t].sawAbsent)
                => (tk[t].idx >= 1 /\ Returned(tk[t]) \in collections)
            /\ tk[t].afterOk
                => /\ ~tk[t].sawAbsent
                   /\ tk[t].idx = 0
                   /\ tk[t].pc = "done"
                   /\ tk[t].res.kind = "coll"

\* one call has created and returned the collection, and a later call has
\* returned it without creating anything
C6_Witness ==
    \E t, u \in Tasks :
        /\ t # u
        /\ tk[t].pc = "done" /\ tk[t].op = "getDonationCollection"
        /\ tk[t].sawAbsent /\ tk[t].res.kind = "coll" /\ tk[t].idx = NumIndexes
        /\ tk[u].pc = "done" /\ tk[u].op = "getDonationCollection"
        /\ tk[u].afterOk /\ tk[u].res.kind = "coll" /\ tk[u].idx = 0
        /\ Returned(tk[u]) = Returned(tk[t])

\* C7 (as claimed): provisioning of a collection, that is a createCollection
\* that succeeds followed by index creation, runs at most once, and only in
\* a call that observed the collection absent.
C7_ProvisionAtMostOnce ==
    [][\A t \in Tasks :
        (tk[t].pc = "creating" /\ tk'[t].pc = "indexing")
        => (tk[t].sawAbsent /\ KeyOf(tk[t]) \notin collections)]_vars

\* C8 (as claimed): at most one client is connected and not closed.
C8_AtMostOneAlive ==
    Cardinality({c \in ClientIds : clients[c] = "connected"}) <= 1

\* C9: once a createIndex of a getDonationCollection call has failed, the
\* call goes on to return the collection handle; it never ends in an error.
C9_IndexFailureSwallowed ==
    \A t \in Tasks :
        tk[t].fail = "index" =>
            /\ tk[t].op = "getDonationCollection"
            /\ tk[t].pc \in {"ci_done", "done"}
            /\ tk[t].pc = "done" => tk[t].res.kind = "coll"

\* a call whose index creation failed has returned the collection
C9_Witness ==
    \E t \in Tasks :
        /\ tk[t].pc = "done" /\ tk[t].op = "getDonationCollection"
        /\ tk[t].fail = "index" /\ tk[t].idx < NumIndexes
        /\ tk[t].res.kind = "coll"
        /\ Returned(tk[t]) \in collections

\* C10 (as claimed): a getDonationCollection call whose createCollection
\* failed still returns the collection handle.
C10_CreateFailureSwallowed ==
    \A t \in Tasks :
        (tk[t].pc = "done" /\ tk[t].fail = "create") => tk[t].res.kind = "coll"

\* C11: checkMongoHealth, in either revision, never ends in an error: a call
\* is only ever in one of its own steps, and when it has returned its result
\* is an {ok, message} value with a message; ok is false whenever the
\* configuration check, the connect or a ping failed.
C11_HealthNeverThrows ==
    \A t \in Tasks :
        tk[t].op \in HealthOps =>
            /\ tk[t].pc \in {"connecting", "pinging", "hc_client", "hc_pinging", "done"}
            /\ tk[t].pc = "done" =>
                /\ tk[t].res.kind = "health"
                /\ tk[t].res.message # Unset
                /\ tk[t].fail # Unset => ~tk[t].res.ok
                /\ ~tk[t].env.MONGODB_URI /\ tk[t].op = "checkMongoHealth" => ~tk[t].res.ok

\* a pinging health check whose connect or ping failed has returned ok = false
C11_Witness ==
    \E t \in Tasks :
        /\ tk[t].pc = "done" /\ tk[t].op = "checkMongoHealthPing"
        /\ tk[t].fail \in {"connect", "ping", "health ping"}
        /\ tk[t].res.kind = "health" /\ ~tk[t].res.ok

\* the 22 hexadecimal characters 0-9, a-f, A-F
HexCodes == {48, 49, 50, 51, 52, 53, 54, 55, 56, 57,
             97, 98, 99, 100, 101, 102, 65, 66, 67, 68, 69, 70}

\* C12: isValidObjectId returns true exactly when its input is a string of
\* exactly 24 characters, all of them hexadecimal; it returns false for every
\* other string and for every value that is not a string.
C12_ExactlyHex24 ==
    \A t \in Tasks :
        (tk[t].pc = "done" /\ tk[t].op = "isValidObjectId") =>
            /\ tk[t].res.kind = "bool"
            /\ tk[t].res.ok <=>
                 /\ tk[t].arg.type = "string"
                 /\ Len(tk[t].arg.str) = 24
                 /\ \A i \in 1..Len(tk[t].arg.str) : tk[t].arg.str[i] \in HexCodes

\* a 24-character string mixing digits and an upper-case F has been accepted
C12_Witness ==
    \E t \in Tasks :
        /\ tk[t].pc = "done" /\ tk[t].op = "isValidObjectId"
        /\ tk[t].res.ok
        /\ tk[t].arg.type = "string" /\ Len(tk[t].arg.str) = 24
        /\ \E i, j \in 1..24 : tk[t].arg.str[i] = 48 /\ tk[t].arg.str[j] = 70

\* C13 (as claimed): when one createIndex of createIndexes fails, every other
\* index of the eight is still attempted: a call whose index creation failed
\* has issued all NumIndexes createIndex calls.
C13_IndexesIndependent ==
    \A t \in Tasks :
        tk[t].fail = "index" => tk[t].idx = NumIndexes

\* C14 (as claimed): the database handle is invalidated together with the
\* client: whenever cachedClient is absent cachedDb is absent too, and a
\* cached database handle is always one derived from the client now cached,
\* never from a client that failed or was replaced.
C14_DbClearedWithClient ==
    /\ cachedClient = Null => cachedDb = NoDb
    /\ cachedDb # NoDb => cachedDb.c = cachedClient

\* C15 (as claimed): once a getDatabase call has succeeded, every getDatabase
\* call of the process returns a handle of the first caller's database name:
\* any two calls that have returned hold handles of the same name.
C15_FirstNameForever ==
    \A t, u \in Tasks :
        (/\ tk[t].pc = "done" /\ tk[t].op = "getDatabase" /\ tk[t].res.kind = "db"
         /\ tk[u].pc = "done" /\ tk[u].op = "getDatabase" /\ tk[u].res.kind = "db")
        => tk[t].res.db.name = tk[u].res.db.name

\* C15 (amended): a cached database handle is changed by nothing but the
\* finally block of a closeMongoConnection call, which clears it; a
\* getDatabase call returns the cached handle whatever database name its
\* configuration carries, and derives a handle for its own name only when
\* none is cached.
C15_FirstNameUntilClose ==
    [][/\ (cachedDb # NoDb /\ cachedDb' # cachedDb)
            => /\ cachedDb' = NoDb
               /\ \E t \in Tasks : /\ tk[t].op = "closeMongoConnection"
                                   /\ tk[t].pc = "closing" /\ tk'[t].pc = "done"
       /\ \A t \in Tasks :
            (tk[t].pc = "gc_done" /\ tk'[t].res.kind = "db")
            => /\ tk'[t].res.db = cachedDb'
               /\ cachedDb # NoDb => tk'[t].res.db = cachedDb
               /\ cachedDb = NoDb =>
                    tk'[t].res.db = DbHandle(tk[t].res.c,
                        IF tk[t].env.DATABASE_NAME = Unset THEN "donation_system"
                        ELSE tk[t].env.DATABASE_NAME)]_vars

\* a getDatabase call configured with testdb has returned the handle the
\* first caller derived for the default database
C15_Witness ==
    \E t \in Tasks :
        /\ tk[t].pc = "done" /\ tk[t].op = "getDatabase"
        /\ tk[t].env.DATABASE_NAME = "testdb"
        /\ tk[t].res.kind = "db" /\ tk[t].res.db.name = "donation_system"
        /\ tk[t].res.db = cachedDb

\* C16: with a valid configuration and a server that answers every connect
\* and ping, overlapping cold-start getMongoClient calls never end in an
\* error and each returns a client that is connected and pinged; whenever no
\* connect or ping is in flight after some call has connected, the cache
\* holds a connected, pinged client that one of the calls constructed.
C16_RaceOnlyWastesConnects ==
    /\ \A t \in Tasks :
        /\ tk[t].res.kind # "err"
        /\ (tk[t].pc = "done" /\ tk[t].op = "getMongoClient") => tk[t].res.kind = "client"
        /\ tk[t].res.kind = "client" =>
              /\ tk[t].res.c \in 1..(nextClient - 1)
              /\ clients[tk[t].res.c] = "connected"
              /\ tk[t].res.c \in pinged
    /\ (nextClient > 1 /\ \A t \in Tasks : tk[t].pc \notin {"connecting", "pinging"})
        => /\ cachedClient \in 1..(nextClient - 1)
           /\ clients[cachedClient] = "connected"
           /\ cachedClient \in pinged

\* two overlapping cold-start calls have each connected a client of their
\* own and returned it; the cache holds one of the two
C16_Witness ==
    \E t, u \in Tasks :
        /\ tk[t].pc = "done" /\ tk[t].op = "getMongoClient" /\ tk[t].net
        /\ tk[u].pc = "done" /\ tk[u].op = "getMongoClient" /\ tk[u].net
        /\ tk[t].res.c # tk[u].res.c
        /\ clients[tk[t].res.c] = "connected" /\ clients[tk[u].res.c] = "connected"
        /\ cachedClient \in {tk[t].res.c, tk[u].res.c}

\* C17: a getDonationCollection call whose listCollections is answered while
\* the collection exists ends there: it returns the collection, has issued no
\* createCollection and no createIndex, and leaves the server's collections
\* as they are, whether or not an earlier call's index creation failed; only
\* a call that saw the collection absent is ever creating or indexing.
C17_ExistingNotProvisioned ==
    [][\A t \in Tasks :
         /\ (tk[t].pc = "listing" /\ KeyOf(tk[t]) \in collections /\ tk'[t] # tk[t]
             /\ tk'[t].fail # "list")
               => /\ tk'[t].pc = "done"
                  /\ tk'[t].res = OkColl(tk[t].db, collectionName(tk[t].env))
                  /\ tk'[t].idx = 0
                  /\ ~tk'[t].sawAbsent
                  /\ collections' = collections
         /\ tk'[t].pc \in {"creating", "indexing", "ci_done"} => tk'[t].sawAbsent]_vars

\* one call's index creation failed part-way and it returned the collection;
\* a call that listed after a collection had been handed out returned it
\* without creating anything
C17_Witness ==
    \E t, u \in Tasks :
        /\ t # u
        /\ tk[t].pc = "done" /\ tk[t].fail = "index" /\ tk[t].idx < NumIndexes
        /\ tk[t].res.kind = "coll"
        /\ tk[u].pc = "done" /\ tk[u].op = "getDonationCollection"
        /\ tk[u].res.kind = "coll" /\ tk[u].afterOk
        /\ ~tk[u].sawAbsent /\ tk[u].idx = 0
        /\ KeyOf(tk[u]) = KeyOf(tk[t])

\* C18: the configuration-only checkMongoHealth is one synchronous run that
\* returns ok = TRUE exactly when MONGODB_URI is set, never an error;
\* it constructs, connects, pings and closes nothing and leaves cachedClient
\* and cachedDb as they were.
C18_PassiveHealth ==
    [][\A t \in Tasks :
         (Begins(t) /\ tk'[t].op = "checkMongoHealth")
            => /\ tk'[t].pc = "done"
               /\ tk'[t].res.kind = "health"
               /\ tk'[t].res.ok <=> tk'[t].env.MONGODB_URI
               /\ ~tk'[t].net
               /\ NoDriverActivity
               /\ cachedClient' = cachedClient
               /\ cachedDb' = cachedDb]_vars

\* the check has passed on the configuration alone while the cached client's
\* connection is gone, and the cache still holds that client
C18_Witness ==
    \E t \in Tasks :
        /\ tk[t].pc = "done" /\ tk[t].op = "checkMongoHealth"
        /\ tk[t].res.kind = "health" /\ tk[t].res.ok
        /\ cachedClient # Null /\ clients[cachedClient] = "dead"
        /\ cachedDb # NoDb

\* C19: a cached client has had its connect and its admin ping succeed; the
\* client of a call that is still connecting or still pinging is not the
\* cached one.
C19_CachedWasPinged ==
    /\ cachedClient # Null =>
          /\ cachedClient \in pinged
          /\ clients[cachedClient] # "new"
    /\ \A t \in Tasks :
          tk[t].pc \in {"connecting", "pinging"} =>
              /\ tk[t].client # cachedClient
              /\ tk[t].client \notin pinged

\* a pinged client is cached while another call holds a client of its own
\* that is connected and not yet pinged
C19_Witness ==
    \E t \in Tasks :
        /\ tk[t].pc = "pinging"
        /\ clients[tk[t].client] = "connected"
        /\ cachedClient # Null
        /\ cachedClient \in pinged
        /\ cachedClient # tk[t].client

\* C20: a getMongoClient call whose connect or ping fails while the cache
\* holds a live client stored by another call leaves that client in the
\* cache.
C20_FailureSparesOthersClient ==
    [][\A t \in Tasks :
         (/\ tk[t].pc \in {"connecting", "pinging"}
          /\ tk'[t].fail \in {"connect", "ping"}
          /\ tk'[t] # tk[t]
          /\ LiveCached
          /\ cachedClient # tk[t].client)
            => cachedClient' = cachedClient]_vars

====
